---------------------------- MODULE Spec2Model ----------------------------
(***************************************************************************)
(* Model of the IPMI Prometheus exporter (src/main.go).                    *)
(*                                                                         *)
(* Text is modelled as TLA+ strings, read character by character with      *)
(* SubSeq, so that the regular expression of parseSensorData and the       *)
(* strings/strconv calls of parseValue are computed on the text itself.    *)
(*                                                                         *)
(* A float64 parsed by strconv.ParseFloat is modelled exactly as a decimal *)
(* [m |-> mantissa, e |-> number of decimals], normalised so that equal    *)
(* numbers are equal records ("12.240" and "12.24" both give m = 1224,     *)
(* e = 2).  Only the decimal grammar (sign, digits, one point) is          *)
(* modelled; exponents, hexadecimal floats, "Inf" and "NaN" are outside    *)
(* the inputs of this development.                                         *)
(***************************************************************************)
EXTENDS Integers, Sequences, FiniteSets, TLC

(***************************************************************************)
(* Characters and the strings package.                                     *)
(***************************************************************************)

Char(s, i) == SubSeq(s, i, i)

\* unicode.IsSpace, restricted to the white space the inputs use.
IsSpace(c) == c \in {" ", "\t", "\r", "\n"}

\* \s of Go's regexp (RE2): [\t\n\f\r ].
IsRegexSpace(c) == c \in {" ", "\t", "\r", "\n"}

Digits == {"0", "1", "2", "3", "4", "5", "6", "7", "8", "9"}

\* \w of Go's regexp: [0-9A-Za-z_].
WordChars ==
    Digits \cup {"_"} \cup
    {"a", "b", "c", "d", "e", "f", "g", "h", "i", "j", "k", "l", "m",
     "n", "o", "p", "q", "r", "s", "t", "u", "v", "w", "x", "y", "z"} \cup
    {"A", "B", "C", "D", "E", "F", "G", "H", "I", "J", "K", "L", "M",
     "N", "O", "P", "Q", "R", "S", "T", "U", "V", "W", "X", "Y", "Z"}

DigitVal(c) ==
    CASE c = "0" -> 0 [] c = "1" -> 1 [] c = "2" -> 2 [] c = "3" -> 3
      [] c = "4" -> 4 [] c = "5" -> 5 [] c = "6" -> 6 [] c = "7" -> 7
      [] c = "8" -> 8 [] c = "9" -> 9

\* Number of leading characters of s that satisfy the class.
RECURSIVE LeadingSpaces(_)
LeadingSpaces(s) ==
    IF Len(s) > 0 /\ IsSpace(Char(s, 1))
    THEN 1 + LeadingSpaces(SubSeq(s, 2, Len(s)))
    ELSE 0

RECURSIVE TrailingSpaces(_)
TrailingSpaces(s) ==
    IF Len(s) > 0 /\ IsSpace(Char(s, Len(s)))
    THEN 1 + TrailingSpaces(SubSeq(s, 1, Len(s) - 1))
    ELSE 0

\* strings.TrimSpace
TrimSpace(s) ==
    LET l == LeadingSpaces(s)
    IN  IF l = Len(s) THEN ""
        ELSE SubSeq(s, l + 1, Len(s) - TrailingSpaces(s))

\* strings.Contains
Contains(s, sub) ==
    \E i \in 1..(Len(s) - Len(sub) + 1) : SubSeq(s, i, i + Len(sub) - 1) = sub

\* strings.Split(s, sep) for a one-character separator.
RECURSIVE Split(_, _)
Split(s, sep) ==
    LET hits == {i \in 1..Len(s) : Char(s, i) = sep}
    IN  IF hits = {} THEN <<s>>
        ELSE LET p == CHOOSE i \in hits : \A j \in hits : i <= j
             IN  <<SubSeq(s, 1, p - 1)>> \o Split(SubSeq(s, p + 1, Len(s)), sep)

\* strings.Fields: the maximal runs of non-space characters.
RECURSIVE Fields(_)
Fields(s) ==
    LET t == SubSeq(s, LeadingSpaces(s) + 1, Len(s))
        sp == {i \in 1..Len(t) : IsSpace(Char(t, i))}
    IN  IF Len(t) = 0 THEN <<>>
        ELSE IF sp = {} THEN <<t>>
        ELSE LET p == CHOOSE i \in sp : \A j \in sp : i <= j
             IN  <<SubSeq(t, 1, p - 1)>> \o Fields(SubSeq(t, p + 1, Len(t)))

(***************************************************************************)
(* strconv.ParseFloat on the decimal grammar: an optional sign, digits     *)
(* with at most one point, at least one digit.  The result is [ok, val];   *)
(* val is the exact decimal, normalised.                                   *)
(***************************************************************************)

RECURSIVE DigitsValue(_)
DigitsValue(s) ==
    IF Len(s) = 0 THEN 0
    ELSE 10 * DigitsValue(SubSeq(s, 1, Len(s) - 1)) + DigitVal(Char(s, Len(s)))

RECURSIVE Normalise(_, _)
Normalise(m, e) ==
    IF m = 0 THEN [m |-> 0, e |-> 0]
    ELSE IF e > 0 /\ m % 10 = 0 THEN Normalise(m \div 10, e - 1)
    ELSE [m |-> m, e |-> e]

Zero == [m |-> 0, e |-> 0]

ParseFloat(tok) ==
    LET signed == Len(tok) > 0 /\ Char(tok, 1) \in {"+", "-"}
        neg    == Len(tok) > 0 /\ Char(tok, 1) = "-"
        body   == IF signed THEN SubSeq(tok, 2, Len(tok)) ELSE tok
        dots   == {i \in 1..Len(body) : Char(body, i) = "."}
        wellFormed ==
            /\ \A i \in 1..Len(body) : Char(body, i) \in Digits \cup {"."}
            /\ Cardinality(dots) <= 1
            /\ Len(body) - Cardinality(dots) >= 1
        dot    == IF dots = {} THEN Len(body) + 1 ELSE CHOOSE i \in dots : TRUE
        int    == SubSeq(body, 1, dot - 1)
        frac   == SubSeq(body, dot + 1, Len(body))
        mag    == DigitsValue(int \o frac)
    IN  IF wellFormed
        THEN [ok |-> TRUE,
              val |-> Normalise(IF neg THEN 0 - mag ELSE mag, Len(frac))]
        ELSE [ok |-> FALSE, val |-> Zero]

(***************************************************************************)
(* The Record Parser: sensorRegex of parseSensorData,                      *)
(*   ^([^|]+)\s*\|\s*([^|]+)\s*\|\s*(\w+)\s*\|\s*([^|]+)\s*\|\s*(.+)$      *)
(* Groups 1, 2 and 4 cannot hold a bar, so the four literal bars of the    *)
(* pattern are the first four bars of the line; group 5 is .+ and takes    *)
(* the rest of the line, bars included.                                    *)
(***************************************************************************)

BarPositions(s) == {i \in 1..Len(s) : Char(s, i) = "|"}

\* The i-th bar of s (1-based), for i <= Cardinality(BarPositions(s)).
NthBar(s, i) ==
    CHOOSE p \in BarPositions(s) :
        Cardinality({q \in BarPositions(s) : q < p}) = i - 1

RECURSIVE LeadingRegexSpaces(_)
LeadingRegexSpaces(s) ==
    IF Len(s) > 0 /\ IsRegexSpace(Char(s, 1))
    THEN 1 + LeadingRegexSpaces(SubSeq(s, 2, Len(s)))
    ELSE 0

RECURSIVE TrailingRegexSpaces(_)
TrailingRegexSpaces(s) ==
    IF Len(s) > 0 /\ IsRegexSpace(Char(s, Len(s)))
    THEN 1 + TrailingRegexSpaces(SubSeq(s, 1, Len(s) - 1))
    ELSE 0

\* What a greedy \s* followed by a greedy one-or-more group captures of seg:
\* \s* takes the leading white space and the group the rest; when seg is
\* all white space, \s* backtracks by one character, which the group takes.
GreedyGroup(seg) ==
    LET l == LeadingRegexSpaces(seg)
    IN  IF l = Len(seg) THEN SubSeq(seg, Len(seg), Len(seg))
        ELSE SubSeq(seg, l + 1, Len(seg))

\* The text \s*(\w+)\s* captures of seg, or "" when seg does not match.
WordGroup(seg) ==
    LET l == LeadingRegexSpaces(seg)
        w == IF l = Len(seg) THEN ""
             ELSE SubSeq(seg, l + 1, Len(seg) - TrailingRegexSpaces(seg))
    IN  IF \A i \in 1..Len(w) : Char(w, i) \in WordChars THEN w ELSE ""

\* The pattern with its fourth column forgotten,
\*   ^([^|]+)\s*\|\s*([^|]+)\s*\|\s*(\w+)\s*\|\s*(.+)$
\* (the entity group reported empty).
FindStringSubmatchNoEntity(line) ==
    IF Cardinality(BarPositions(line)) < 3 THEN <<>>
    ELSE LET b(i) == NthBar(line, i)
             seg1 == SubSeq(line, 1, b(1) - 1)
             seg2 == SubSeq(line, b(1) + 1, b(2) - 1)
             seg3 == SubSeq(line, b(2) + 1, b(3) - 1)
             seg5 == SubSeq(line, b(3) + 1, Len(line))
         IN  IF /\ Len(seg1) >= 1
                /\ Len(seg2) >= 1
                /\ WordGroup(seg3) # ""
                /\ Len(seg5) >= 1
             THEN <<line, seg1, GreedyGroup(seg2), WordGroup(seg3), "",
                    GreedyGroup(seg5)>>
             ELSE <<>>

\* Number of bars the pattern needs before its last group.
PatternBars == 4

\* sensorRegex.FindStringSubmatch(line): <<>> (nil) when the line does not
\* match, else <<whole match, group 1, ..., group 5>>.
FindStringSubmatch(line) ==
    IF Cardinality(BarPositions(line)) < PatternBars THEN <<>>
    ELSE LET b(i) == NthBar(line, i)
             seg1 == SubSeq(line, 1, b(1) - 1)
             seg2 == SubSeq(line, b(1) + 1, b(2) - 1)
             seg3 == SubSeq(line, b(2) + 1, b(3) - 1)
             seg4 == SubSeq(line, b(3) + 1, b(4) - 1)
             seg5 == SubSeq(line, b(4) + 1, Len(line))
         IN  IF /\ Len(seg1) >= 1
                /\ Len(seg2) >= 1
                /\ WordGroup(seg3) # ""
                /\ Len(seg4) >= 1
                /\ Len(seg5) >= 1
             THEN <<line, seg1, GreedyGroup(seg2), WordGroup(seg3),
                    GreedyGroup(seg4), GreedyGroup(seg5)>>
             ELSE <<>>

\* len(matches) the code requires: the whole match and five groups.
NumMatches == 6

(***************************************************************************)
(* The Value Classifier: parseValue.                                       *)
(***************************************************************************)

\* The keyword tests with RPM tested first.
UnitKeywordsRpmFirst ==
    << [kw |-> "RPM",       unit |-> "rpm",     type |-> "fan"],
       [kw |-> "Volts",     unit |-> "volts",   type |-> "voltage"],
       [kw |-> "degrees C", unit |-> "celsius", type |-> "temperature"],
       [kw |-> "Watts",     unit |-> "watts",   type |-> "power"],
       [kw |-> "Amps",      unit |-> "amperes", type |-> "current"] >>

\* The five keyword tests of parseValue, in the order of the code.
UnitKeywords ==
    << [kw |-> "Volts",     unit |-> "volts",   type |-> "voltage"],
       [kw |-> "degrees C", unit |-> "celsius", type |-> "temperature"],
       [kw |-> "RPM",       unit |-> "rpm",     type |-> "fan"],
       [kw |-> "Watts",     unit |-> "watts",   type |-> "power"],
       [kw |-> "Amps",      unit |-> "amperes", type |-> "current"] >>

Unclassified == [Value |-> Zero, Unit |-> "", Type |-> ""]

\* The if statements of parseValue from the i-th on: each returns when its
\* keyword is in the text and the first field parses, and falls through to
\* the next otherwise.
RECURSIVE parseValueFrom(_, _)
parseValueFrom(valueStr, i) ==
    IF i > Len(UnitKeywords) THEN Unclassified
    ELSE LET k     == UnitKeywords[i]
             parts == Fields(valueStr)
             f     == IF Len(parts) >= 1 THEN ParseFloat(parts[1])
                      ELSE [ok |-> FALSE, val |-> Zero]
         IN  IF Contains(valueStr, k.kw) /\ Len(parts) >= 1 /\ f.ok
             THEN [Value |-> f.val, Unit |-> k.unit, Type |-> k.type]
             ELSE parseValueFrom(valueStr, i + 1)

parseValue(valueStr) == parseValueFrom(TrimSpace(valueStr), 1)

(***************************************************************************)
(* The Report Parser: parseSensorData.                                     *)
(***************************************************************************)

\* The absent-reading filter as an equality test.
IsAbsentReadingExact(valueStr) == valueStr = "No Reading"

\* The absent-reading filter.
IsAbsentReading(valueStr) == Contains(valueStr, "No Reading")

\* The status filter.
StatusOK(status) == status = "ok"

\* The body of the loop of parseSensorData for one line: the readings it
\* appends, <<>> when the line is skipped.
SensorsOfLine(rawLine) ==
    LET line     == TrimSpace(rawLine)
        matches  == FindStringSubmatch(line)
    IN  IF line = "" THEN <<>>
        ELSE IF Len(matches) # NumMatches THEN <<>>
        ELSE LET name     == TrimSpace(matches[2])
                 id       == TrimSpace(matches[3])
                 status   == TrimSpace(matches[4])
                 entity   == TrimSpace(matches[5])
                 valueStr == TrimSpace(matches[6])
                 v        == parseValue(valueStr)
             IN  IF ~StatusOK(status) THEN <<>>
                 ELSE IF IsAbsentReading(valueStr) THEN <<>>
                 ELSE IF v.Value = Zero /\ v.Unit = "" THEN <<>>
                 ELSE << [Name |-> name, ID |-> id, Status |-> status,
                          Entity |-> entity, Value |-> v.Value,
                          Unit |-> v.Unit, Type |-> v.Type] >>

RECURSIVE SensorsOfLines(_)
SensorsOfLines(lines) ==
    IF Len(lines) = 0 THEN <<>>
    ELSE SensorsOfLine(Head(lines)) \o SensorsOfLines(Tail(lines))

parseSensorData(sdrData) == SensorsOfLines(Split(sdrData, "\n"))

(***************************************************************************)
(* The Metric Registry: the five GaugeVecs, as one function from           *)
(* <<family, sensor_name, sensor_id, host>> to the value last set.         *)
(***************************************************************************)

EmptyRegistry == [k \in {} |-> Zero]

\* The switch of updateMetrics: the gauge a sensor type is written to.
GaugeOf(type) ==
    CASE type = "voltage"     -> "ipmi_voltage_volts"
      [] type = "temperature" -> "ipmi_temperature_celsius"
      [] type = "fan"         -> "ipmi_fan_speed_rpm"
      [] type = "power"       -> "ipmi_power_watts"
      [] type = "current"     -> "ipmi_current_amperes"
      [] OTHER                -> ""

\* The sum of two decimals.
RECURSIVE Pow10(_)
Pow10(n) == IF n = 0 THEN 1 ELSE 10 * Pow10(n - 1)

AddDecimal(a, b) ==
    LET e == IF a.e >= b.e THEN a.e ELSE b.e
    IN  Normalise(a.m * Pow10(e - a.e) + b.m * Pow10(e - b.e), e)

\* gauge.WithLabelValues(name, id, host).Add(value)
GaugeAdd(reg, gauge, name, id, host, value) ==
    LET key == <<gauge, name, id, host>>
    IN  [k \in DOMAIN reg \cup {key} |->
            IF k # key THEN reg[k]
            ELSE IF key \in DOMAIN reg THEN AddDecimal(reg[key], value)
            ELSE value]

\* gauge.WithLabelValues(name, id, host).Set(value)
GaugeSet(reg, gauge, name, id, host, value) ==
    LET key == <<gauge, name, id, host>>
    IN  [k \in DOMAIN reg \cup {key} |-> IF k = key THEN value ELSE reg[k]]

\* The iteration with gauge.Reset() before the Set.
UpdateOneReset(reg, sensor, host) ==
    IF GaugeOf(sensor.Type) = "" THEN reg
    ELSE LET kept == {k \in DOMAIN reg : k[1] # GaugeOf(sensor.Type)}
         IN  GaugeSet([k \in kept |-> reg[k]], GaugeOf(sensor.Type),
                      sensor.Name, sensor.ID, host, sensor.Value)

\* One iteration of the loop of updateMetrics.
UpdateOne(reg, sensor, host) ==
    IF GaugeOf(sensor.Type) = "" THEN reg
    ELSE GaugeSet(reg, GaugeOf(sensor.Type), sensor.Name, sensor.ID, host,
                  sensor.Value)

RECURSIVE updateMetrics(_, _, _)
updateMetrics(reg, sensors, host) ==
    IF Len(sensors) = 0 THEN reg
    ELSE updateMetrics(UpdateOne(reg, Head(sensors), host), Tail(sensors), host)

(***************************************************************************)
(* State.                                                                  *)
(***************************************************************************)

VARIABLES
    \* the process: main goroutine, collection goroutine, ticker, registry
    pc,         \* where each goroutine is
    out,        \* per goroutine: the report text executeIPMICommand returned
    pending,    \* per goroutine: the sensors updateMetrics has still to set
    registry,   \* the gauges
    tickReady,  \* ticker.C holds a tick (the channel has a buffer of one)
    ticksFired, \* ticks the runtime timer has produced so far
    started,    \* history: calls of collectMetrics so far
    consumed,   \* history: ticks received from ticker.C so far
    failed,     \* log: "Failed to execute IPMI command" lines so far
    updated,    \* log: "Updated %d sensor metrics" lines so far
    latest,     \* history: per key, the value in the report fetched last
    scrapes,    \* /metrics requests served so far
    \* the parser harness
    inp,        \* the text given to the parser
    outp,       \* what the parser returned for it
    \* the pipeline harness
    fed,        \* the report text fed last
    runs,       \* pipeline runs so far
    repeats     \* consecutive runs on the same text, the first included

procVars == <<pc, out, pending, tickReady, ticksFired, started, consumed,
              failed, updated, latest, scrapes>>
parserVars == <<inp, outp>>
pipeVars == <<fed, runs, repeats>>
vars == <<procVars, registry, parserVars, pipeVars>>

Threads == {"main", "collector"}

\* The values the variables of a harness keep while another one runs.
ProcessOff ==
    /\ pc = [t \in Threads |-> "off"]
    /\ out = [t \in Threads |-> ""]
    /\ pending = [t \in Threads |-> <<>>]
    /\ tickReady = FALSE
    /\ ticksFired = 0
    /\ started = 0
    /\ consumed = 0
    /\ failed = 0
    /\ updated = 0
    /\ latest = EmptyRegistry
    /\ scrapes = 0

ParserOff == inp = [kind |-> "none", text |-> ""] /\ outp = [done |-> FALSE]

PipelineOff == fed = "" /\ runs = 0 /\ repeats = 0

(***************************************************************************)
(* Inputs.                                                                 *)
(***************************************************************************)

\* All sequences over S of length at most n.
SeqsUpTo(S, n) == UNION {[1..k -> S] : k \in 0..n}

RECURSIVE Join(_, _)
Join(parts, sep) ==
    IF Len(parts) = 0 THEN ""
    ELSE IF Len(parts) = 1 THEN parts[1]
    ELSE parts[1] \o sep \o Join(Tail(parts), sep)

\* Most bar-delimited fields a generated line has.
MaxFields == 6

\* Most unit keywords a generated value text has.
MaxKeywords == 2

\* Most lines a generated report has.
MaxLines == 2

NameTexts == {"CPU1 Temp", "V12"}
StatusTexts == {"ok", "ns", "o k"}
ValueFieldTexts ==
    {"45 degrees C", "12.240 Volts", "No Reading", "5 Volts No Reading",
     "N/A", "0 RPM", "0", "Volts"}
Separators == {" | ", "|"}

\* A sensor line cut to its first n fields, or extended by fields "x".
LineOf(name, status, value, sep, n) ==
    LET five == <<name, "01h", status, "3.1", value>>
    IN  Join([i \in 1..n |-> IF i <= Len(five) THEN five[i] ELSE "x"], sep)

OddLines ==
    {"", "   ", "Sensor report", "| 01h | ok | 3.1 | 5 Volts",
     "V12 || ok | 3.1 | 5 Volts", "V12 | 01h |  | 3.1 | 5 Volts",
     "V12 | 01h | ok || 5 Volts", "V12 | 01h | ok | 3.1 |",
     "V12 |  | ok |  | 5 Volts", "  V12 | 01h | ok | 3.1 | 7 Watts\r"}

LineTexts ==
    OddLines \cup
    {LineOf(nm, st, v, sp, n) :
        nm \in NameTexts, st \in StatusTexts, v \in ValueFieldTexts,
        sp \in Separators, n \in 1..MaxFields}

LeadTexts ==
    {"12.240", "850", "0", "-3.5", "N/A", "No", "1.2.3", "12Volts", "."}

KeywordTexts == {"Volts", "degrees C", "RPM", "Watts", "Amps", "volts"}

ValueTexts ==
    {"", " ", "RPM", " 40 RPM ", "Watts 5"} \cup
    {Join(<<ld>> \o ks, " ") :
        ld \in LeadTexts, ks \in SeqsUpTo(KeywordTexts, MaxKeywords)}

\* The lines the generated reports are made of.
ReportLines ==
    {"V12 | 01h | ok | 7.1 | 12.240 Volts",
     "V12 | 01h | ok | 7.1 | 11.9 Volts",
     "CPU1 Temp      | 02h | ok  |  3.1 | 45 degrees C",
     "Fan1           | 04h | ok  |  7.1 | No Reading",
     "PSU | 05h | ok | 10.1 | 5 Volts No Reading",
     "Sensor report"}

ReportTexts == {Join(ls, "\n") : ls \in SeqsUpTo(ReportLines, MaxLines)}

\* The texts executeIPMICommand returns in the process model: a report with
\* a line that is no sensor record between two sensor lines; a report with
\* another value of V12, an absent reading, two readings of a second voltage
\* sensor and no CPU1 Temp line; an empty output.
ProcReports ==
    {"V12 | 01h | ok | 7.1 | 12.240 Volts\nSensor report\nCPU1 Temp      | 02h | ok  |  3.1 | 45 degrees C",
     "V12 | 01h | ok | 7.1 | 11.9 Volts\nFan1           | 04h | ok  |  7.1 | No Reading\nV5 | 03h | ok | 7.2 | 5 Volts\nV5 | 03h | ok | 7.2 | 5.1 Volts",
     ""}

\* parseSensorData on the report texts of the harnesses, computed once.
SensorsOf == [text \in ReportTexts \cup ProcReports |-> parseSensorData(text)]

ParserInputs ==
    [kind : {"line"}, text : LineTexts] \cup
    [kind : {"value"}, text : ValueTexts] \cup
    [kind : {"report"}, text : ReportTexts]

(***************************************************************************)
(* The parser harness: each input is given once to the function its kind   *)
(* names.                                                                  *)
(***************************************************************************)

ParserInit ==
    /\ inp \in ParserInputs
    /\ outp = [done |-> FALSE]
    /\ registry = EmptyRegistry
    /\ ProcessOff
    /\ PipelineOff

\* The Record Parser on one trimmed line, and the Report Parser on the same
\* line as a report of its own.
RecordParse ==
    /\ inp.kind = "line"
    /\ ~outp.done
    /\ outp' = [done |-> TRUE,
                matches |-> FindStringSubmatch(TrimSpace(inp.text)),
                sensors |-> parseSensorData(inp.text)]
    /\ UNCHANGED <<inp, procVars, registry, pipeVars>>

ClassifyValue ==
    /\ inp.kind = "value"
    /\ ~outp.done
    /\ outp' = [done |-> TRUE, value |-> parseValue(inp.text)]
    /\ UNCHANGED <<inp, procVars, registry, pipeVars>>

ReportParse ==
    /\ inp.kind = "report"
    /\ ~outp.done
    /\ outp' = [done |-> TRUE, sensors |-> parseSensorData(inp.text)]
    /\ UNCHANGED <<inp, procVars, registry, pipeVars>>

ParserNext == RecordParse \/ ClassifyValue \/ ReportParse

ParserSpec == ParserInit /\ [][ParserNext]_vars

(***************************************************************************)
(* The pipeline harness: parseSensorData and updateMetrics run on one      *)
(* report text after another, as collectMetrics runs them on the output of *)
(* executeIPMICommand.                                                     *)
(***************************************************************************)

\* config.Host, the value of IPMI_HOST.
HostAddr == "10.0.0.5"

\* Most pipeline runs of one behaviour.
MaxRuns == 3

PipelineInit ==
    /\ registry = EmptyRegistry
    /\ PipelineOff
    /\ ProcessOff
    /\ ParserOff

RunPipeline(text) ==
    /\ runs < MaxRuns
    /\ registry' = updateMetrics(registry, SensorsOf[text], HostAddr)
    /\ fed' = text
    /\ runs' = runs + 1
    /\ repeats' = IF runs > 0 /\ text = fed THEN repeats + 1 ELSE 1
    /\ UNCHANGED <<procVars, parserVars>>

PipelineNext == \E text \in ReportTexts : RunPipeline(text)

PipelineSpec == PipelineInit /\ [][PipelineNext]_vars

(***************************************************************************)
(* The process: main, startMetricsCollection, collectMetrics.              *)
(*                                                                         *)
(* pc of main: "start" (before getIPMIConfig), "fatal" (log.Fatal of       *)
(* getIPMIConfig), "startCollection", then the positions of collectMetrics,*)
(* "listen" (before http.ListenAndServe), "serving", "exited" (log.Fatal   *)
(* of a failed ListenAndServe).                                            *)
(* pc of the collector goroutine: "off" (not yet spawned), the positions   *)
(* of collectMetrics, "wait" (at <-ticker.C).                              *)
(* Positions of collectMetrics: "collect" (called), "fetching" (inside     *)
(* cmd.Output()), "updating" (inside the loop of updateMetrics).           *)
(***************************************************************************)

\* Most ticks the ticker produces in one behaviour.
MaxTicks == 2

\* Most /metrics requests in one behaviour.
MaxScrapes == 1

\* The values of IPMI_HOST, IPMI_USERNAME and IPMI_PASSWORD.
EnvValues == {"", "set"}

Init ==
    /\ pc = [t \in Threads |-> IF t = "main" THEN "start" ELSE "off"]
    /\ out = [t \in Threads |-> ""]
    /\ pending = [t \in Threads |-> <<>>]
    /\ registry = EmptyRegistry
    /\ tickReady = FALSE
    /\ ticksFired = 0
    /\ started = 0
    /\ consumed = 0
    /\ failed = 0
    /\ updated = 0
    /\ latest = EmptyRegistry
    /\ scrapes = 0
    /\ ParserOff
    /\ PipelineOff

\* The process has not been ended by log.Fatal.
Alive == pc["main"] \notin {"fatal", "exited"}

\* Where a goroutine goes when its call of collectMetrics returns: main to
\* http.ListenAndServe, the collector to <-ticker.C.
AfterCollect(t) == IF t = "main" THEN "listen" ELSE "wait"

\* getIPMIConfig: log.Fatal unless the three variables are set.
GetIPMIConfig ==
    /\ pc["main"] = "start"
    /\ \E host \in EnvValues, username \in EnvValues, password \in EnvValues :
          pc' = [pc EXCEPT !["main"] =
                    IF host = "" \/ username = "" \/ password = ""
                    THEN "fatal" ELSE "startCollection"]
    /\ UNCHANGED <<out, pending, registry, tickReady, ticksFired, started,
                   consumed, failed, updated, latest, scrapes, parserVars,
                   pipeVars>>

\* startMetricsCollection up to its own call of collectMetrics: the ticker
\* is made, the goroutine is spawned and enters its loop, and main calls
\* collectMetrics itself.
StartMetricsCollection ==
    /\ pc["main"] = "startCollection"
    /\ pc' = [t \in Threads |-> "collect"]
    /\ UNCHANGED <<out, pending, registry, tickReady, ticksFired, started,
                   consumed, failed, updated, latest, scrapes, parserVars,
                   pipeVars>>

\* collectMetrics is entered and calls executeIPMICommand, which blocks in
\* cmd.Output().
CallFetch(t) ==
    /\ Alive
    /\ pc[t] = "collect"
    /\ pc' = [pc EXCEPT ![t] = "fetching"]
    /\ started' = started + 1
    /\ UNCHANGED <<out, pending, registry, tickReady, ticksFired, consumed,
                   failed, updated, latest, scrapes, parserVars, pipeVars>>

\* executeIPMICommand returns the output of ipmitool; collectMetrics parses
\* it and enters updateMetrics.
FetchOK(t, text) ==
    /\ Alive
    /\ pc[t] = "fetching"
    /\ out' = [out EXCEPT ![t] = text]
    /\ pending' = [pending EXCEPT ![t] = SensorsOf[text]]
    /\ latest' = updateMetrics(latest, SensorsOf[text], HostAddr)
    /\ pc' = [pc EXCEPT ![t] = "updating"]
    /\ UNCHANGED <<registry, tickReady, ticksFired, started, consumed,
                   failed, updated, scrapes, parserVars, pipeVars>>

\* The error branch, with log.Fatalf for log.Printf.
OnFetchErrorFatal(t) == [pc EXCEPT !["main"] = "exited"]

\* The pc after the error branch of collectMetrics: the error is logged and
\* the call returns.
OnFetchError(t) == [pc EXCEPT ![t] = AfterCollect(t)]

\* executeIPMICommand returns an error.
FetchError(t) ==
    /\ Alive
    /\ pc[t] = "fetching"
    /\ failed' = failed + 1
    /\ pc' = OnFetchError(t)
    /\ UNCHANGED <<out, pending, registry, tickReady, ticksFired, started,
                   consumed, updated, latest, scrapes, parserVars, pipeVars>>

\* One iteration of the loop of updateMetrics.
SetGauge(t) ==
    /\ Alive
    /\ pc[t] = "updating"
    /\ pending[t] # <<>>
    /\ registry' = UpdateOne(registry, Head(pending[t]), HostAddr)
    /\ pending' = [pending EXCEPT ![t] = Tail(pending[t])]
    /\ UNCHANGED <<pc, out, tickReady, ticksFired, started, consumed, failed,
                   updated, latest, scrapes, parserVars, pipeVars>>

\* updateMetrics returns; collectMetrics logs the count and returns.
FinishUpdate(t) ==
    /\ Alive
    /\ pc[t] = "updating"
    /\ pending[t] = <<>>
    /\ updated' = updated + 1
    /\ out' = [out EXCEPT ![t] = ""]
    /\ pc' = [pc EXCEPT ![t] = AfterCollect(t)]
    /\ UNCHANGED <<pending, registry, tickReady, ticksFired, started,
                   consumed, failed, latest, scrapes, parserVars, pipeVars>>

\* The runtime timer sends on ticker.C, which holds one tick; a tick that
\* finds the channel full is dropped.
TimerFire ==
    /\ Alive
    /\ pc["collector"] # "off"
    /\ ticksFired < MaxTicks
    /\ ticksFired' = ticksFired + 1
    /\ tickReady' = TRUE
    /\ UNCHANGED <<pc, out, pending, registry, started, consumed, failed,
                   updated, latest, scrapes, parserVars, pipeVars>>

\* <-ticker.C in the loop of the goroutine.
ReceiveTick ==
    /\ Alive
    /\ pc["collector"] = "wait"
    /\ tickReady
    /\ tickReady' = FALSE
    /\ consumed' = consumed + 1
    /\ pc' = [pc EXCEPT !["collector"] = "collect"]
    /\ UNCHANGED <<out, pending, registry, ticksFired, started, failed,
                   updated, latest, scrapes, parserVars, pipeVars>>

\* http.ListenAndServe binds :8080 and serves.
Listen ==
    /\ pc["main"] = "listen"
    /\ pc' = [pc EXCEPT !["main"] = "serving"]
    /\ UNCHANGED <<out, pending, registry, tickReady, ticksFired, started,
                   consumed, failed, updated, latest, scrapes, parserVars,
                   pipeVars>>

\* http.ListenAndServe returns an error at once; log.Fatal ends the process.
ListenFail ==
    /\ pc["main"] = "listen"
    /\ pc' = [pc EXCEPT !["main"] = "exited"]
    /\ UNCHANGED <<out, pending, registry, tickReady, ticksFired, started,
                   consumed, failed, updated, latest, scrapes, parserVars,
                   pipeVars>>

\* promhttp.Handler serves a request for /metrics from the gauges.
Scrape ==
    /\ pc["main"] = "serving"
    /\ scrapes < MaxScrapes
    /\ scrapes' = scrapes + 1
    /\ UNCHANGED <<pc, out, pending, registry, tickReady, ticksFired,
                   started, consumed, failed, updated, latest, parserVars,
                   pipeVars>>

Next ==
    \/ GetIPMIConfig
    \/ StartMetricsCollection
    \/ \E t \in Threads : CallFetch(t)
    \/ \E t \in Threads, text \in ProcReports : FetchOK(t, text)
    \/ \E t \in Threads : FetchError(t)
    \/ \E t \in Threads : SetGauge(t)
    \/ \E t \in Threads : FinishUpdate(t)
    \/ TimerFire
    \/ ReceiveTick
    \/ Listen
    \/ ListenFail
    \/ Scrape

Spec == Init /\ [][Next]_vars

\* What the Go scheduler and the runtime timer guarantee: a goroutine that
\* can take a step of its own takes it, and the ticker ticks.  Nothing makes
\* ipmitool return: cmd.Output() has no timeout, so FetchOK and FetchError
\* carry no fairness.
FairSpec ==
    /\ Spec
    /\ WF_vars(GetIPMIConfig)
    /\ WF_vars(StartMetricsCollection)
    /\ \A t \in Threads : WF_vars(CallFetch(t))
    /\ \A t \in Threads : WF_vars(SetGauge(t))
    /\ \A t \in Threads : WF_vars(FinishUpdate(t))
    /\ WF_vars(TimerFire)
    /\ WF_vars(ReceiveTick)
    /\ WF_vars(Listen)

(***************************************************************************)
(* Claims about the parser, checked under ParserSpec.                      *)
(***************************************************************************)

\* Number of bar-delimited fields of a line.
NumFields(line) == Cardinality(BarPositions(line)) + 1

\* The text after the fourth bar of a line, for a line of five fields or more.
AfterFourthBar(line) == SubSeq(line, NthBar(line, 4) + 1, Len(line))

LineParsed == inp.kind = "line" /\ outp.done

UnitPairs ==
    {<<"volts", "voltage">>, <<"celsius", "temperature">>, <<"rpm", "fan">>,
     <<"watts", "power">>, <<"amperes", "current">>}

ReportParsed == inp.kind \in {"line", "report"} /\ outp.done

\* C6: every reading the Report Parser emits has status "ok", comes from a
\* line whose value field does not contain "No Reading", and carries one of
\* the five unit/quantity pairs.
C6_EmittedReadingsValid ==
    ReportParsed =>
        \A i \in 1..Len(outp.sensors) :
            LET r == outp.sensors[i]
                lines == Split(inp.text, "\n")
            IN  /\ r.Status = "ok"
                /\ <<r.Unit, r.Type>> \in UnitPairs
                /\ \E j \in 1..Len(lines) :
                      LET line == TrimSpace(lines[j])
                      IN  /\ NumFields(line) >= 5
                          /\ ~Contains(AfterFourthBar(line), "No Reading")
                          /\ TrimSpace(SubSeq(line, 1, NthBar(line, 1) - 1)) = r.Name
                          /\ SensorsOfLine(lines[j]) = <<r>>

\* A report with a valid line and an "ok" line whose value field holds a
\* unit keyword and the absent-reading marker has given exactly one reading.
C6_Witness ==
    /\ inp.kind = "report"
    /\ outp.done
    /\ Len(outp.sensors) = 1
    /\ Contains(inp.text, "| ok | 10.1 | 5 Volts No Reading")

\* The keywords in the priority order of the claim, with their pairs.
PriorityOrder ==
    << <<"Volts", "volts", "voltage">>,
       <<"degrees C", "celsius", "temperature">>,
       <<"RPM", "rpm", "fan">>,
       <<"Watts", "watts", "power">>,
       <<"Amps", "amperes", "current">> >>

\* The leading white-space-separated token of a text, "" when it has none.
LeadingToken(text) ==
    LET starts == {i \in 1..Len(text) : ~IsSpace(Char(text, i))}
    IN  IF starts = {} THEN ""
        ELSE LET a == CHOOSE i \in starts : \A j \in starts : i <= j
                 stops == {i \in a..Len(text) : IsSpace(Char(text, i))}
                 b == IF stops = {} THEN Len(text)
                      ELSE (CHOOSE i \in stops : \A j \in stops : i <= j) - 1
             IN  SubSeq(text, a, b)

\* C10: the result is the number of the leading token with the pair of the
\* first keyword, in the order Volts, degrees C, RPM, Watts, Amps, that the
\* text contains; it is unclassifiable (zero, empty unit) when the text holds
\* no keyword or its leading token is not a number.
C10_KeywordPriority ==
    (inp.kind = "value" /\ outp.done) =>
        LET present == {i \in 1..Len(PriorityOrder) :
                            Contains(inp.text, PriorityOrder[i][1])}
            num == ParseFloat(LeadingToken(inp.text))
        IN  IF present # {} /\ num.ok
            THEN LET first == CHOOSE i \in present : \A j \in present : i <= j
                 IN  outp.value = [Value |-> num.val,
                                   Unit |-> PriorityOrder[first][2],
                                   Type |-> PriorityOrder[first][3]]
            ELSE outp.value = [Value |-> Zero, Unit |-> "", Type |-> ""]

\* A text holding both RPM and Volts, RPM first, has been classified as volts.
C10_Witness ==
    /\ inp.kind = "value"
    /\ outp.done
    /\ Contains(inp.text, "RPM Volts")
    /\ outp.value.Unit = "volts"
    /\ outp.value.Value # Zero

(***************************************************************************)
(* Claims about the pipeline, checked under PipelineSpec.                  *)
(***************************************************************************)

\* C7: a pipeline run on the text of the run before it leaves the registry,
\* its keys and the value under each, as that run left it.
C7_Idempotent ==
    [][(runs' = runs + 1 /\ repeats' >= 2) => registry' = registry]_vars

\* A text with two readings of one key has been run twice in succession on a
\* registry that an earlier run of another text had filled.
C7_Witness ==
    /\ runs = 3
    /\ repeats = 2
    /\ Cardinality(DOMAIN registry) = 2
    /\ Len(SensorsOf[fed]) = 2
    /\ SensorsOf[fed][1].Name = SensorsOf[fed][2].Name
    /\ SensorsOf[fed][1].Value # SensorsOf[fed][2].Value

(***************************************************************************)
(* Claims about the process, checked under Spec and FairSpec.              *)
(***************************************************************************)

\* A call of collectMetrics is in progress in goroutine t.
Collecting(t) == pc[t] \in {"collect", "fetching", "updating"}

\* C1: at most one collection (fetch, parse and registry update) is in
\* progress at any time.
C1_NoOverlap ==
    Cardinality({t \in Threads : pc[t] \in {"fetching", "updating"}}) <= 1

\* C2: the collections started so far are at most one more than the ticks
\* received so far.
C2_OnePerTick == started <= 1 + consumed

\* C3: once the configuration is loaded, the server comes to serve /metrics
\* (or ListenAndServe fails), whether or not a fetch ever returns; and
\* serving a request starts no collection.
C3_ServingNeverWaits ==
    /\ (pc["main"] = "startCollection") ~> (pc["main"] \in {"serving", "exited"})
    /\ [][scrapes' # scrapes => started' = started]_vars

\* C4: the step of a failed fetch changes no registry point, does not end
\* the process and returns the goroutine from collectMetrics (the collector
\* to its wait for the ticker); the collector leaves that wait only by
\* receiving a tick, which starts a collection, and can do so whenever a tick
\* is there.
C4_FetchFailureNotTerminal ==
    /\ [][failed' # failed =>
            /\ registry' = registry
            /\ Alive'
            /\ \E t \in Threads :
                  /\ pc[t] = "fetching"
                  /\ pc'[t] = (IF t = "collector" THEN "wait" ELSE "listen")
                  /\ \A u \in Threads \ {t} : pc'[u] = pc[u]]_vars
    /\ [][(pc["collector"] = "wait" /\ pc'["collector"] # "wait") =>
            (pc'["collector"] = "collect" /\ consumed' = consumed + 1)]_vars
    /\ []((Alive /\ pc["collector"] = "wait" /\ tickReady) => ENABLED ReceiveTick)

\* After two failed fetches and no successful one since the registry was
\* filled, the collector has received a tick and is fetching again.
C4_Witness ==
    /\ failed >= 2
    /\ consumed >= 2
    /\ updated = 1
    /\ DOMAIN registry # {}
    /\ pc["collector"] = "fetching"
    /\ started = 4

\* The gauge of each quantity.
FamilyOfQuantity ==
    [voltage |-> "ipmi_voltage_volts", temperature |-> "ipmi_temperature_celsius",
     fan |-> "ipmi_fan_speed_rpm", power |-> "ipmi_power_watts",
     current |-> "ipmi_current_amperes"]

\* Key k with value v is named by a valid reading of the report of a
\* collection that is updating the registry.
NamedByReading(k, v) ==
    \E t \in Threads :
        /\ pc[t] = "updating"
        /\ \E i \in 1..Len(SensorsOf[out[t]]) :
              LET r == SensorsOf[out[t]][i]
              IN  /\ r.Type \in DOMAIN FamilyOfQuantity
                  /\ k = <<FamilyOfQuantity[r.Type], r.Name, r.ID, HostAddr>>
                  /\ v = r.Value

\* C8: no step removes a key, and a key a step creates or changes is named,
\* with its new value, by a valid reading of the report of a collection in
\* progress, under the gauge of the reading's quantity.
C8_WritesOnlyNamedPoints ==
    [][/\ \A k \in DOMAIN registry :
             /\ k \in DOMAIN registry'
             /\ registry'[k] # registry[k] => NamedByReading(k, registry'[k])
       /\ \A k \in DOMAIN registry' \ DOMAIN registry :
             NamedByReading(k, registry'[k])]_vars

\* A collection has set every reading of a report that has an absent
\* reading and no CPU1 Temp line, and the CPU1 Temp point of an earlier
\* report is still there.
C8_Witness ==
    \E t \in Threads :
        /\ pc[t] = "updating"
        /\ pending[t] = <<>>
        /\ Contains(out[t], "No Reading")
        /\ ~Contains(out[t], "CPU1 Temp")
        /\ DOMAIN registry =
              {<<"ipmi_temperature_celsius", "CPU1 Temp", "02h", HostAddr>>,
               <<"ipmi_voltage_volts", "V12", "01h", HostAddr>>,
               <<"ipmi_voltage_volts", "V5", "03h", HostAddr>>}
        /\ registry[<<"ipmi_voltage_volts", "V5", "03h", HostAddr>>] = [m |-> 51, e |-> 1]
        /\ \A u \in Threads \ {t} : ~Collecting(u)

\* C9: whenever no collection is in progress, the registry holds, for every
\* key, the value of the report fetched last among those with a valid
\* reading for the key.
C9_HoldsLatestReport ==
    (\A t \in Threads : ~Collecting(t)) =>
        /\ DOMAIN registry = DOMAIN latest
        /\ \A k \in DOMAIN registry : registry[k] = latest[k]

=============================================================================
